---- MODULE Spec2Model ----
(***************************************************************************)
(* Offline-first clock synchronisation of the z8 desktop agent             *)
(* (apps/desktop/src-tauri): the SQLite action queue (offline.rs), the     *)
(* shared application state (state.rs), the clock commands (commands.rs),  *)
(* the background queue processor (offline.rs), login/logout (auth.rs)     *)
(* and the remote time-entry service seen through ClockService (clock.rs). *)
(*                                                                         *)
(* Granularity: one action per stretch of code between two await points.   *)
(* An HTTP request is one step (the server handles it and the caller gets  *)
(* the answer); the synchronous code that follows the answer up to the     *)
(* next request is part of the step that ends with that request's answer,  *)
(* except in the queue processor, where the bookkeeping after a replay     *)
(* (mark_completed / increment_retry) is a step of its own so that a       *)
(* process exit between the remote success and the removal is a behaviour. *)
(* logout writes the token and is_clocked_in under two separate locks, so  *)
(* it is two steps.                                                        *)
(*                                                                         *)
(* Spec is the running program on a fresh queue file with the wall clock   *)
(* standing still (every enqueue in the same second).  SpecSeeded starts   *)
(* on a queue file that already holds rows.  SpecQueue drives the          *)
(* OfflineQueue methods alone and SpecReplay the queue processor on rows   *)
(* enqueued at any wall-clock reading; in both the wall clock moves, also  *)
(* backwards.  In all of these every statement on the queue file          *)
(* succeeds; SpecFaults is the commands and the queue processor on a file  *)
(* system where any statement on the queue file can fail (disk full, I/O   *)
(* error).  SpecOutage is the commands and the queue processor through an  *)
(* outage of the remote service that ends, with the processor always       *)
(* taking its next step.  SpecIdle is the idle monitor (idle.rs) beside     *)
(* the writers of is_clocked_in, and SpecAway the same over two absences   *)
(* of the user.  SpecLocks is the same code seen at its locks: every       *)
(* acquisition, release and request is a step.  SpecSessions is the queue  *)
(* processor across logouts and logins with the tokens of two sessions.    *)
(***************************************************************************)
EXTENDS Integers, Sequences, FiniteSets, TLC

VARIABLES
    queue,              \* table `queue` of offline_queue.db, rows in rowid order
    nextId,             \* next AUTOINCREMENT rowid (sqlite_sequence + 1)
    session_token,      \* AppState.session_token (and session_token.txt)
    webapp_url,         \* AppState.settings.webapp_url
    is_clocked_in,      \* AppState.is_clocked_in
    clock,              \* Utc::now().timestamp(): the wall clock, in seconds
    remote_clocked_in,  \* the remote service's authoritative clock state
    cmd,                \* the command invocation in flight (one at a time)
    sync,               \* start_queue_processor: position and locals
    storage,            \* the file system under offline_queue.db: "reliable" or "faulty"
    network,            \* the way to the remote service: "unreliable" or "reliable"
    idle,               \* start_idle_monitor: last_activity and the checker's locals
    locks,              \* the locks of AppState and who is where in taking them
    logout,             \* the logout command in progress
    acked,              \* history: ids whose replay the remote answered with success
    last                \* history: what the last step did

vars == <<queue, nextId, session_token, webapp_url, is_clocked_in, clock,
          remote_clocked_in, cmd, sync, storage, network, idle, locks, logout,
          acked, last>>

----------------------------------------------------------------------------
(* Bounds of the model *)

\* rows ever inserted into the queue table (rowids 1..MaxActions)
MaxActions == 2
\* the wall clock takes the values 0..MaxClock
MaxClock == 1

\* the monotonic clock (Instant) takes the values 0..MaxInstant, in seconds
MaxInstant == 320

\* the absences of a whole idle threshold that the user takes
MaxAway == 2

(* Program constants *)

\* offline.rs: `if action.retry_count >= 5`
MAX_RETRY == 5

\* idle.rs: the user is idle after 5 minutes without input
IDLE_THRESHOLD_SECS == 300
\* idle.rs: the checker sleeps 10 seconds between two checks
CHECK_INTERVAL_SECS == 10

None == "None"
Token == "tokA"
\* the token of another login (a later session, or another account)
Token2 == "tokB"
Tokens == {Token, Token2}
Url == "https://z8.example"

\* break-start strings a caller can pass / a row can hold
GoodBreak == "2024-05-01T12:00:00+00:00"
BadBreak == "12 o'clock"
Rfc3339Strings == {GoodBreak}

\* errors of a remote call, by their text (anyhow's Display)
NetErr == "error sending request: connection refused"
RejErr == "Clock in failed: forbidden"
RemoteErrors == {NetErr, RejErr}
\* the texts that contain "connection", "timeout" or "network"
NetworkTexts == {NetErr}

ActionTypes == {"ClockIn", "ClockOut", "ClockOutWithBreak"}

----------------------------------------------------------------------------
(* chrono: DateTime::parse_from_rfc3339 *)
parse_from_rfc3339(s) ==
    IF s \in Rfc3339Strings THEN [ok |-> TRUE, instant |-> s]
                            ELSE [ok |-> FALSE, instant |-> None]

(* commands.rs: e.to_string().contains("connection") || ... "timeout" || ... "network" *)
is_network_error(e) == e \in NetworkTexts

----------------------------------------------------------------------------
(* OfflineQueue (offline.rs).  The table is a sequence of rows in rowid     *)
(* order; AUTOINCREMENT never reuses a rowid.                               *)

enqueue(q, id, action_type, timestamp, payload, now) ==
    Append(q, [id |-> id, action_type |-> action_type, timestamp |-> timestamp,
               payload |-> payload, retry_count |-> 0, created_at |-> now])

\* ORDER BY created_at ASC, read through idx_queue_created_at: the index
\* entries are (created_at, rowid), so equal created_at come in rowid order.
RowBefore(a, b) ==
    \/ a.created_at < b.created_at
    \/ a.created_at = b.created_at /\ a.id < b.id

RowRank(q, i) == Cardinality({j \in 1..Len(q) : RowBefore(q[j], q[i])}) + 1

get_pending(q) ==
    [k \in 1..Len(q) |-> q[CHOOSE i \in 1..Len(q) : RowRank(q, i) = k]]

\* (mutant) DELETE without its WHERE clause
mark_completed_All(q, id) == <<>>

\* (mutant) DELETE ... WHERE id <= ?
mark_completed_UpTo(q, id) == SelectSeq(q, LAMBDA r : r.id > id)

mark_completed(q, id) == SelectSeq(q, LAMBDA r : r.id # id)

\* (mutant) UPDATE without its WHERE clause
increment_retry_All(q, id) ==
    [i \in 1..Len(q) |-> [q[i] EXCEPT !.retry_count = @ + 1]]

increment_retry(q, id) ==
    [i \in 1..Len(q) |->
        IF q[i].id = id THEN [q[i] EXCEPT !.retry_count = @ + 1] ELSE q[i]]

count(q) == Len(q)

Ids(q) == {q[i].id : i \in 1..Len(q)}
Row(q, id) == q[CHOOSE i \in 1..Len(q) : q[i].id = id]

----------------------------------------------------------------------------
(* History record of a step *)
\* by/op: who stepped and what it was; for a command also kind, the request
\* of the step (api), the returned Result (ret) with its ClockStatus
\* is_clocked_in (status), the branch taken (path), the number of rows the
\* step added to the queue (queued) and is_clocked_in before the step (was)
NoStep ==
    [by |-> None, op |-> None, kind |-> None, api |-> None, ret |-> None,
     status |-> None, path |-> None, queued |-> 0, was |-> None]

CmdIdle == [pc |-> "idle", kind |-> None, token |-> None, payload |-> None]
\* `sent` is history: the token the cycle's last replay request carried
SyncIdle ==
    [pc |-> "sleep", token |-> None, pending |-> <<>>, i |-> 0,
     result |-> None, dispatched |-> <<>>, applied |-> <<>>, sent |-> None]
\* logout: not running ("idle") / between its two writes ("reset")
LogoutIdle == "idle"

\* the outcomes of a statement on the queue file: Ok, and on a faulty file
\* system (disk full, I/O error) also Err
StatementResults == IF storage = "reliable" THEN {TRUE} ELSE BOOLEAN

\* the table after a writing statement: executed, or failed with an Err that
\* the caller drops (`let _ = ...`), which leaves the table as it was
Written(ok, q) == IF ok THEN q ELSE queue

\* Option<Instant>: None
NoInstant == -1

\* start_idle_monitor at instant `now`: last_activity = Instant::now(), and
\* the checker's `was_idle = false`, `idle_start = None`
\* `event` is history: idle_duration_ms of the event the last check emitted;
\* `seen` is history: the last_activity of the latest check that found the
\* user idle while clocked in, forgotten by a check that found the user not
\* clocked in; `reported` is history: `seen` at each emitted event
IdleStart(now) ==
    [now |-> now, last_activity |-> now, was_idle |-> FALSE,
     idle_start |-> NoInstant, event |-> NoInstant,
     seen |-> NoInstant, reported |-> <<>>]

\* the threads and tasks that take locks: a command, the queue processor,
\* login/logout, the idle checker and the input listener
Actors == {"cmd", "sync", "auth", "idle", "input"}

\* no lock is held and no actor is inside an operation.  `held` is the set
\* of <<actor, lock, mode>>, `at[a]` what actor a still has to do: its next
\* lock operations and requests, in order, and `waiting[l]` the actors that
\* have asked for lock l and do not hold it yet, in the order they asked
Locks == {"session_token", "is_clocked_in", "offline_queue", "last_activity"}

LocksFree ==
    [held |-> {}, at |-> [a \in Actors |-> <<>>], waiting |-> [l \in Locks |-> <<>>]]

(* A process start: AppState::new with OfflineQueue::new on an empty file *)
Init ==
    /\ queue = <<>>
    /\ nextId = 1
    /\ session_token \in {None, Token}
    /\ webapp_url \in {"", Url}
    /\ is_clocked_in = FALSE
    /\ clock = 0
    /\ remote_clocked_in \in BOOLEAN
    /\ cmd = CmdIdle
    /\ sync = SyncIdle
    /\ storage = "reliable"
    /\ network = "unreliable"
    /\ idle = IdleStart(0)
    /\ locks = LocksFree
    /\ logout = LogoutIdle
    /\ acked = {}
    /\ last = NoStep

Step(by, op, kind, api, ret, status, path) ==
    [by |-> by, op |-> op, kind |-> kind, api |-> api, ret |-> ret,
     status |-> status, path |-> path,
     queued |-> Len(queue') - Len(queue), was |-> is_clocked_in]

----------------------------------------------------------------------------
(* The remote time-entry service behind ClockService (clock.rs).  A POST    *)
(* that is answered with success has recorded the entry.                    *)
PostEntry(type) == remote_clocked_in' = (type = "clock_in")

\* the answers a request can get: on an unreliable network also the errors
RemoteResults ==
    IF network = "reliable" THEN {"ok"} ELSE {"ok"} \cup RemoteErrors

----------------------------------------------------------------------------
(* Commands (commands.rs) *)

Commands == {"clock_in", "clock_out", "clock_out_with_break"}

\* the ActionType a command queues
QueuedType(kind) ==
    CASE kind = "clock_in" -> "ClockIn"
      [] kind = "clock_out" -> "ClockOut"
      [] kind = "clock_out_with_break" -> "ClockOutWithBreak"

\* the payload a command queues: Some(break_start_time) or None
QueuedPayload(kind, payload) ==
    IF kind = "clock_out_with_break" THEN payload ELSE None

\* is_clocked_in after the network-error branch: clock_in stores true,
\* clock_out stores false, clock_out_with_break stores nothing
OptimisticState(kind, cur) ==
    CASE kind = "clock_in" -> TRUE
      [] kind = "clock_out" -> FALSE
      [] kind = "clock_out_with_break" -> cur

\* is_clocked_in of the ClockStatus the network-error branch returns
OptimisticStatus(kind) == kind # "clock_out"

\* (mutant) the webapp_url check is missing
Precondition_NoUrl(kind, payload) ==
    IF session_token = None THEN "Not authenticated"
    ELSE IF kind = "clock_out_with_break" /\ ~parse_from_rfc3339(payload).ok
         THEN "Invalid break time"
    ELSE "ok"

\* (mutant) break_start_time is passed on without being parsed
Precondition_NoParse(kind, payload) ==
    IF session_token = None THEN "Not authenticated"
    ELSE IF webapp_url = "" THEN "Webapp URL not configured"
    ELSE "ok"

\* The head of a command: token, webapp_url and (with a break) the parse of
\* break_start_time; an Err here is returned before any request is sent.
Precondition(kind, payload) ==
    IF session_token = None THEN "Not authenticated"
    ELSE IF webapp_url = "" THEN "Webapp URL not configured"
    ELSE IF kind = "clock_out_with_break" /\ ~parse_from_rfc3339(payload).ok
         THEN "Invalid break time"
    ELSE "ok"

CmdStart(kind, payload) ==
    /\ UNCHANGED <<storage, logout, network, idle, locks>>
    /\ cmd.pc = "idle"
    /\ UNCHANGED <<queue, nextId, session_token, webapp_url, is_clocked_in, clock,
                   remote_clocked_in, sync, acked>>
    /\ LET pre == Precondition(kind, payload) IN
       IF pre # "ok"
       THEN /\ cmd' = cmd
            /\ last' = Step("cmd", "return", kind, None, pre, None, "precondition")
       ELSE /\ cmd' = [pc |-> "call", kind |-> kind, token |-> session_token,
                       payload |-> payload]
            /\ last' = Step("cmd", "start", kind, None, None, None, None)

\* (mutant) the action is queued and the optimistic value stored before the
\* error is classified
CmdFailed_QueuedFirst(api, e) ==
    /\ nextId <= MaxActions
    /\ queue' = enqueue(queue, nextId, QueuedType(cmd.kind), clock,
                        QueuedPayload(cmd.kind, cmd.payload), clock)
    /\ nextId' = nextId + 1
    /\ is_clocked_in' = OptimisticState(cmd.kind, is_clocked_in)
    /\ cmd' = CmdIdle
    /\ last' = IF is_network_error(e)
               THEN Step("cmd", "return", cmd.kind, api, "Ok",
                         OptimisticStatus(cmd.kind), "queued")
               ELSE Step("cmd", "return", cmd.kind, api, "Err", None, "rejected")
    /\ UNCHANGED <<remote_clocked_in>>

\* Err(e) of the direct call: queue and answer optimistically on a network
\* error (`let _ = queue.enqueue(..)`: the Result of enqueue is dropped),
\* return the error otherwise
CmdFailed(api, e) ==
    IF is_network_error(e)
    THEN /\ nextId <= MaxActions
         /\ \E ok \in StatementResults :
               /\ queue' = Written(ok, enqueue(queue, nextId, QueuedType(cmd.kind), clock,
                                               QueuedPayload(cmd.kind, cmd.payload), clock))
               /\ nextId' = IF ok THEN nextId + 1 ELSE nextId
         /\ is_clocked_in' = OptimisticState(cmd.kind, is_clocked_in)
         /\ cmd' = CmdIdle
         /\ last' = Step("cmd", "return", cmd.kind, api, "Ok",
                         OptimisticStatus(cmd.kind), "queued")
         /\ UNCHANGED <<remote_clocked_in>>
    ELSE /\ UNCHANGED <<queue, nextId, is_clocked_in, remote_clocked_in>>
         /\ cmd' = CmdIdle
         /\ last' = Step("cmd", "return", cmd.kind, api, "Err", None, "rejected")

\* Ok of a request of the direct call: the entry is recorded; go on to the
\* next request (the second POST of a break, or the status fetch)
CmdSent(api, type, nextpc) ==
    /\ UNCHANGED <<queue, nextId, is_clocked_in>>
    /\ PostEntry(type)
    /\ cmd' = [cmd EXCEPT !.pc = nextpc]
    /\ last' = Step("cmd", "call", cmd.kind, api, None, None, None)

\* ClockService::clock_in / clock_out / the first POST of clock_out_with_break
CmdCall(r) ==
    /\ UNCHANGED <<storage, logout, network, idle, locks>>
    /\ cmd.pc = "call"
    /\ LET type == IF cmd.kind = "clock_in" THEN "clock_in" ELSE "clock_out"
           api == IF cmd.kind = "clock_in" THEN "POST clock_in" ELSE "POST clock_out"
           nextpc == IF cmd.kind = "clock_out_with_break" THEN "call2" ELSE "status"
       IN IF r = "ok" THEN CmdSent(api, type, nextpc) ELSE CmdFailed(api, r)
    /\ UNCHANGED <<session_token, webapp_url, clock, sync, acked>>

\* the second POST of ClockService::clock_out_with_break: clock back in
CmdCall2(r) ==
    /\ UNCHANGED <<storage, logout, network, idle, locks>>
    /\ cmd.pc = "call2"
    /\ IF r = "ok" THEN CmdSent("POST clock_in", "clock_in", "status")
                   ELSE CmdFailed("POST clock_in", r)
    /\ UNCHANGED <<session_token, webapp_url, clock, sync, acked>>

\* (mutant) the fetched status is returned but not stored
CmdFetched_NoStore(r) ==
    /\ is_clocked_in' = is_clocked_in
    /\ last' = Step("cmd", "return", cmd.kind, "GET status",
                    IF r = "ok" THEN "Ok" ELSE "Err",
                    IF r = "ok" THEN remote_clocked_in ELSE None,
                    IF r = "ok" THEN "synced" ELSE "status_failed")

\* (mutant) when the status fetch fails the command stores what its request
\* should have led to
CmdFetched_Guess(r) ==
    IF r = "ok"
    THEN /\ is_clocked_in' = remote_clocked_in
         /\ last' = Step("cmd", "return", cmd.kind, "GET status", "Ok",
                         remote_clocked_in, "synced")
    ELSE /\ is_clocked_in' = (cmd.kind # "clock_out")
         /\ last' = Step("cmd", "return", cmd.kind, "GET status", "Err",
                         None, "status_failed")

\* the status fetch after a successful direct call: Ok(status) is stored by
\* set_clocked_in and returned, Err is returned by `?`
CmdFetched(r) ==
    IF r = "ok"
    THEN /\ is_clocked_in' = remote_clocked_in
         /\ last' = Step("cmd", "return", cmd.kind, "GET status", "Ok",
                         remote_clocked_in, "synced")
    ELSE /\ is_clocked_in' = is_clocked_in
         /\ last' = Step("cmd", "return", cmd.kind, "GET status", "Err",
                         None, "status_failed")

\* ClockService::get_status after the direct call
CmdStatus(r) ==
    /\ UNCHANGED <<storage, logout, network, idle, locks>>
    /\ cmd.pc = "status"
    /\ UNCHANGED <<queue, nextId, session_token, webapp_url, clock,
                   remote_clocked_in, sync, acked>>
    /\ CmdFetched(r)
    /\ cmd' = CmdIdle

CmdStep ==
    \/ \E kind \in Commands, payload \in {GoodBreak, BadBreak} :
          /\ (kind # "clock_out_with_break" => payload = GoodBreak)
          /\ CmdStart(kind, IF kind = "clock_out_with_break" THEN payload ELSE None)
    \/ \E r \in RemoteResults : CmdCall(r)
    \/ \E r \in RemoteResults : CmdCall2(r)
    \/ \E r \in RemoteResults : CmdStatus(r)

----------------------------------------------------------------------------
(* The queue processor (offline.rs, start_queue_processor) *)

\* the action the loop `for action in pending` is at
Current == sync.pending[sync.i]
InLoop == sync.pc = "loop" /\ sync.i <= Len(sync.pending)

\* (mutant) the status is fetched after any action, not after the loop
LoopDone_Early == sync.pc = "loop"

\* the `for` loop has gone through the whole snapshot
LoopDone == sync.pc = "loop" /\ sync.i > Len(sync.pending)

\* (mutant) off by one: an action is skipped only above 5 retries
TooManyRetries_Above(a) == a.retry_count > MAX_RETRY

\* `if action.retry_count >= 5 { continue; }`
TooManyRetries(a) == a.retry_count >= MAX_RETRY

\* (mutant) the payload is not looked at before the request
PayloadError_Unchecked(a) == None

\* the ClockOutWithBreak arm: Some(payload) that parses, else an Err without
\* a request
PayloadError(a) ==
    IF a.action_type # "ClockOutWithBreak" THEN None
    ELSE IF a.payload = None THEN "Missing break time payload"
    ELSE IF ~parse_from_rfc3339(a.payload).ok THEN "Invalid break time payload"
    ELSE None

\* the loop moves on to the next action of the snapshot
NextAction == [sync EXCEPT !.pc = "loop", !.i = @ + 1, !.result = None]

\* (mutant) a replayed action is counted as a retry instead of removed
RecordResult_Never(q, id, result) == increment_retry(q, id)

\* (mutant) the action is removed whatever the result
RecordResult_Always(q, id, result) == mark_completed(q, id)

\* `match result`: Ok removes the action, Err counts a retry
RecordResult(q, id, result) ==
    IF result = "ok" THEN mark_completed(q, id) ELSE increment_retry(q, id)

\* (mutant) the cycle does not look for a session token
WakeOutcome_NoTokenCheck(ok) ==
    IF webapp_url = "" THEN "no_url"
    ELSE IF ~ok THEN "read_failed"
    ELSE IF get_pending(queue) = <<>> THEN "empty"
    ELSE "loop"

\* (mutant) an empty snapshot does not end the cycle
WakeOutcome_NoEmptyCheck(ok) ==
    IF session_token = None THEN "no_token"
    ELSE IF webapp_url = "" THEN "no_url"
    ELSE IF ~ok THEN "read_failed"
    ELSE "loop"

\* The head of a cycle: token, webapp_url, the pending snapshot, in this
\* order; each `continue` goes back to the sleep.
WakeOutcome(ok) ==
    IF session_token = None THEN "no_token"
    ELSE IF webapp_url = "" THEN "no_url"
    ELSE IF ~ok THEN "read_failed"
    ELSE IF get_pending(queue) = <<>> THEN "empty"
    ELSE "loop"

\* After the 30 s sleep: token, webapp_url, the pending snapshot; `continue`
\* (back to sleep) when one of them is missing or the snapshot is empty.
SyncWake ==
    /\ UNCHANGED <<storage, logout, network, idle, locks>>
    /\ sync.pc = "sleep"
    /\ \E ok \in StatementResults :
          /\ sync' = IF WakeOutcome(ok) = "loop"
                     THEN [SyncIdle EXCEPT !.pc = "loop", !.token = session_token,
                                           !.pending = get_pending(queue), !.i = 1]
                     ELSE sync
          /\ last' = [NoStep EXCEPT !.by = "sync", !.op = "wake",
                                    !.path = WakeOutcome(ok)]
    /\ UNCHANGED <<queue, nextId, session_token, webapp_url, is_clocked_in, clock,
                   remote_clocked_in, cmd, acked>>

SyncSkip ==
    /\ UNCHANGED <<storage, logout, network, idle, locks>>
    /\ InLoop
    /\ TooManyRetries(Current)
    /\ sync' = NextAction
    /\ last' = NoStep
    /\ UNCHANGED <<queue, nextId, session_token, webapp_url, is_clocked_in, clock,
                   remote_clocked_in, cmd, acked>>

\* a ClockOutWithBreak whose payload is missing or does not parse: `result`
\* is an Err without any request, and `match result` runs at once
SyncInvalid ==
    /\ \E ok \in StatementResults :
          queue' = Written(ok, RecordResult(queue, Current.id, PayloadError(Current)))
    /\ sync' = NextAction
    /\ last' = NoStep
    /\ UNCHANGED <<remote_clocked_in, acked>>

\* the answer of a replay request: Ok of the last request of the action is
\* the replay's success
SyncAnswer(type, r, more) ==
    /\ IF r = "ok" THEN PostEntry(type) ELSE UNCHANGED remote_clocked_in
    /\ acked' = IF r = "ok" /\ ~more THEN acked \cup {Current.id} ELSE acked
    /\ last' = NoStep

\* the `&token` of a replay request: the local `token` of the cycle
ReplayToken == sync.token

\* (mutant) a break is replayed by its clock-out alone
SyncRequest_OneStep(r) ==
    LET type == IF Current.action_type = "ClockIn" THEN "clock_in" ELSE "clock_out"
    IN /\ SyncAnswer(type, r, FALSE)
       /\ sync' = [sync EXCEPT !.pc = "record", !.result = r,
                               !.sent = ReplayToken,
                               !.dispatched = Append(@, Current.id),
                               !.applied = IF r = "ok" THEN Append(@, Current.id) ELSE @]
       /\ UNCHANGED queue

\* ClockService::clock_in / clock_out / the first POST of clock_out_with_break
SyncRequest(r) ==
    LET type == IF Current.action_type = "ClockIn" THEN "clock_in" ELSE "clock_out"
        more == Current.action_type = "ClockOutWithBreak" /\ r = "ok"
    IN /\ SyncAnswer(type, r, more)
       /\ sync' = [sync EXCEPT !.pc = IF more THEN "call2" ELSE "record",
                               !.result = IF more THEN None ELSE r,
                               !.sent = ReplayToken,
                               !.dispatched = Append(@, Current.id),
                               !.applied = IF r = "ok" /\ ~more
                                           THEN Append(@, Current.id) ELSE @]
       /\ UNCHANGED queue

\* `let result = match action.action_type { ... }` for an action that is not
\* skipped
SyncCall(r) ==
    /\ UNCHANGED <<storage, logout, network, idle, locks>>
    /\ InLoop
    /\ ~TooManyRetries(Current)
    /\ IF PayloadError(Current) # None THEN SyncInvalid ELSE SyncRequest(r)
    /\ UNCHANGED <<nextId, session_token, webapp_url, is_clocked_in, clock, cmd>>

\* the second POST of ClockService::clock_out_with_break
SyncCall2(r) ==
    /\ UNCHANGED <<storage, logout, network, idle, locks>>
    /\ sync.pc = "call2"
    /\ SyncAnswer("clock_in", r, FALSE)
    /\ sync' = [sync EXCEPT !.pc = "record", !.result = r,
                            !.sent = ReplayToken,
                            !.applied = IF r = "ok" THEN Append(@, Current.id) ELSE @]
    /\ UNCHANGED <<queue, nextId, session_token, webapp_url, is_clocked_in, clock, cmd>>

SyncRecord ==
    /\ UNCHANGED <<storage, logout, network, idle, locks>>
    /\ sync.pc = "record"
    /\ \E ok \in StatementResults :
          queue' = Written(ok, RecordResult(queue, Current.id, sync.result))
    /\ sync' = NextAction
    /\ last' = NoStep
    /\ UNCHANGED <<nextId, session_token, webapp_url, is_clocked_in, clock,
                   remote_clocked_in, cmd, acked>>

\* (mutant) the fetched status is merged: an optimistic value whose action
\* was enqueued after the snapshot is kept
SyncStatus_Merge(r) ==
    /\ UNCHANGED <<storage, logout, network, idle, locks>>
    /\ LoopDone
    /\ is_clocked_in' =
          IF r = "ok" /\ Ids(queue) \subseteq {sync.pending[k].id : k \in 1..Len(sync.pending)}
          THEN remote_clocked_in ELSE is_clocked_in
    /\ sync' = SyncIdle
    /\ last' = [NoStep EXCEPT !.by = "sync", !.op = "status",
                              !.ret = IF r = "ok" THEN "Ok" ELSE "Err"]
    /\ UNCHANGED <<queue, nextId, session_token, webapp_url, clock,
                   remote_clocked_in, cmd, acked>>

\* after the loop: get_status, and set_clocked_in if it answered
SyncStatus(r) ==
    /\ UNCHANGED <<storage, logout, network, idle, locks>>
    /\ LoopDone
    /\ is_clocked_in' = IF r = "ok" THEN remote_clocked_in ELSE is_clocked_in
    /\ sync' = SyncIdle
    /\ last' = [NoStep EXCEPT !.by = "sync", !.op = "status",
                              !.ret = IF r = "ok" THEN "Ok" ELSE "Err"]
    /\ UNCHANGED <<queue, nextId, session_token, webapp_url, clock,
                   remote_clocked_in, cmd, acked>>

SyncStep ==
    \/ SyncWake
    \/ SyncSkip
    \/ \E r \in RemoteResults : SyncCall(r)
    \/ \E r \in RemoteResults : SyncCall2(r)
    \/ SyncRecord
    \/ \E r \in RemoteResults : SyncStatus(r)

----------------------------------------------------------------------------
(* auth.rs *)

\* handle_oauth_callback with a token the status request accepts
Login ==
    /\ UNCHANGED <<storage, logout, network, idle, locks>>
    /\ webapp_url # ""
    /\ session_token' = Token
    /\ last' = NoStep
    /\ UNCHANGED <<queue, nextId, webapp_url, is_clocked_in, clock,
                   remote_clocked_in, cmd, sync, acked>>

\* handle_oauth_callback with any token the status request accepts: the
\* token of the callback replaces the stored one, whoever was logged in
LoginAs(token) ==
    /\ UNCHANGED <<storage, logout, network, idle, locks>>
    /\ webapp_url # ""
    /\ session_token' = token
    /\ last' = [NoStep EXCEPT !.by = "auth", !.op = "login"]
    /\ UNCHANGED <<queue, nextId, webapp_url, is_clocked_in, clock,
                   remote_clocked_in, cmd, sync, acked>>

\* (mutant) logout also empties the offline queue
LogoutClear_Purge ==
    /\ logout = "idle"
    /\ session_token' = None
    /\ queue' = <<>>
    /\ logout' = "reset"
    /\ last' = NoStep
    /\ UNCHANGED <<nextId, webapp_url, is_clocked_in, clock, remote_clocked_in,
                   cmd, sync, storage, network, idle, locks, acked>>

\* logout, first write: state.set_session_token(None)
LogoutClear ==
    /\ logout = "idle"
    /\ session_token' = None
    /\ logout' = "reset"
    /\ last' = NoStep
    /\ UNCHANGED <<queue, nextId, webapp_url, is_clocked_in, clock, remote_clocked_in,
                   cmd, sync, storage, network, idle, locks, acked>>

\* logout, second write: state.set_clocked_in(false); then the tray icon, the
\* "logout" event and the return
LogoutReset ==
    /\ logout = "reset"
    /\ is_clocked_in' = FALSE
    /\ logout' = LogoutIdle
    /\ last' = [NoStep EXCEPT !.by = "auth", !.op = "logout"]
    /\ UNCHANGED <<queue, nextId, session_token, webapp_url, clock, remote_clocked_in,
                   cmd, sync, storage, network, idle, locks, acked>>

Logout == LogoutClear \/ LogoutReset

----------------------------------------------------------------------------
(* The environment *)

\* a second passes on the wall clock
ClockAdvance ==
    /\ UNCHANGED <<storage, logout, network, idle, locks>>
    /\ clock < MaxClock
    /\ clock' = clock + 1
    /\ last' = NoStep
    /\ UNCHANGED <<queue, nextId, session_token, webapp_url, is_clocked_in,
                   remote_clocked_in, cmd, sync, acked>>

\* the wall clock is set back (NTP step, manual change): Utc::now() is not
\* monotonic
ClockStepBack ==
    /\ UNCHANGED <<storage, logout, network, idle, locks>>
    /\ clock > 0
    /\ clock' \in 0..(clock - 1)
    /\ last' = NoStep
    /\ UNCHANGED <<queue, nextId, session_token, webapp_url, is_clocked_in,
                   remote_clocked_in, cmd, sync, acked>>

\* The process exits at any point and is started again: AppState::new reads
\* settings, the queue file and the token file; everything else starts over.
Restart ==
    /\ is_clocked_in' = FALSE
    /\ logout' = LogoutIdle
    /\ UNCHANGED <<storage, network, locks>>
    /\ idle' = IdleStart(idle.now)
    /\ cmd' = CmdIdle
    /\ sync' = SyncIdle
    /\ last' = [NoStep EXCEPT !.by = "env", !.op = "restart"]
    /\ UNCHANGED <<queue, nextId, session_token, webapp_url, clock,
                   remote_clocked_in, acked>>

Next ==
    \/ CmdStep
    \/ SyncStep
    \/ Login
    \/ Logout
    \/ Restart

Spec == Init /\ [][Next]_vars

----------------------------------------------------------------------------
(* A start on a queue file that already holds rows (left by an earlier run *)
(* or put there by a test): the table is whatever the file holds.          *)

SeedRow(id, action_type, payload, retry_count) ==
    [id |-> id, action_type |-> action_type, timestamp |-> 0, payload |-> payload,
     retry_count |-> retry_count, created_at |-> 0]

SeedQueues ==
    { <<SeedRow(1, "ClockOutWithBreak", BadBreak, 0), SeedRow(2, "ClockIn", None, 0)>>,
      <<SeedRow(1, "ClockIn", None, 0), SeedRow(2, "ClockOut", None, MAX_RETRY)>>,
      <<SeedRow(1, "ClockOutWithBreak", None, MAX_RETRY - 1)>> }

InitSeeded ==
    /\ queue \in SeedQueues
    /\ nextId = Len(queue) + 1
    /\ session_token = Token
    /\ webapp_url = Url
    /\ is_clocked_in = FALSE
    /\ clock = 0
    /\ remote_clocked_in \in BOOLEAN
    /\ cmd = CmdIdle
    /\ sync = SyncIdle
    /\ storage = "reliable"
    /\ network = "unreliable"
    /\ idle = IdleStart(0)
    /\ locks = LocksFree
    /\ logout = LogoutIdle
    /\ acked = {}
    /\ last = NoStep

SpecSeeded == InitSeeded /\ [][Next]_vars

----------------------------------------------------------------------------
(* The running program on a queue file whose statements can fail *)

FaultNext ==
    \/ CmdStep
    \/ SyncStep

InitFaults ==
    /\ queue = <<>>
    /\ nextId = 1
    /\ session_token = Token
    /\ webapp_url = Url
    /\ is_clocked_in = FALSE
    /\ clock = 0
    /\ remote_clocked_in \in BOOLEAN
    /\ cmd = CmdIdle
    /\ sync = SyncIdle
    /\ storage = "faulty"
    /\ network = "unreliable"
    /\ idle = IdleStart(0)
    /\ locks = LocksFree
    /\ logout = LogoutIdle
    /\ acked = {}
    /\ last = NoStep

SpecFaults == InitFaults /\ [][FaultNext]_vars

----------------------------------------------------------------------------
(* The OfflineQueue methods driven directly, at any wall-clock reading *)

Others == <<session_token, webapp_url, is_clocked_in, remote_clocked_in, cmd,
            sync, storage, network, idle, locks, logout, acked>>

\* enqueue as the commands call it: timestamp and created_at both from
\* Utc::now(); a payload only with ClockOutWithBreak
QEnqueue(action_type) ==
    /\ nextId <= MaxActions
    /\ queue' = enqueue(queue, nextId, action_type, clock,
                        IF action_type = "ClockOutWithBreak" THEN GoodBreak ELSE None,
                        clock)
    /\ nextId' = nextId + 1
    /\ last' = NoStep
    /\ UNCHANGED <<clock, Others>>

QMarkCompleted(id) ==
    /\ queue' = mark_completed(queue, id)
    /\ last' = NoStep
    /\ UNCHANGED <<nextId, clock, Others>>

QIncrementRetry(id) ==
    /\ \A i \in 1..Len(queue) : queue[i].id = id => queue[i].retry_count <= MAX_RETRY
    /\ queue' = increment_retry(queue, id)
    /\ last' = NoStep
    /\ UNCHANGED <<nextId, clock, Others>>

QueueNext ==
    \/ \E t \in ActionTypes : QEnqueue(t)
    \/ \E id \in 1..MaxActions : QMarkCompleted(id)
    \/ \E id \in 1..MaxActions : QIncrementRetry(id)
    \/ ClockAdvance
    \/ ClockStepBack

SpecQueue == Init /\ [][QueueNext]_vars

ReplayNext ==
    \/ \E t \in ActionTypes : QEnqueue(t)
    \/ SyncStep
    \/ ClockAdvance
    \/ ClockStepBack

SpecReplay == Init /\ [][ReplayNext]_vars

----------------------------------------------------------------------------
(* The idle monitor (idle.rs): the input listener thread and the idle      *)
(* checker thread, beside the queue processor, login and logout, which     *)
(* write is_clocked_in.  Time passes a check interval at a time, or a      *)
(* whole idle threshold at once (the user away, the machine suspended).    *)

Pauses == {CHECK_INTERVAL_SECS, IDLE_THRESHOLD_SECS}

TimePasses(d) ==
    /\ idle.now + d <= MaxInstant
    /\ idle' = [idle EXCEPT !.now = @ + d]
    /\ last' = NoStep
    /\ UNCHANGED <<queue, nextId, session_token, webapp_url, is_clocked_in, clock,
                   remote_clocked_in, cmd, sync, storage, network, locks, logout, acked>>

\* what the listener's callback leaves alone: it has no AppState at all
InputFrame ==
    UNCHANGED <<queue, nextId, session_token, webapp_url, is_clocked_in, clock,
                remote_clocked_in, cmd, sync, storage, network, locks, logout, acked>>

\* the listener's callback on a key, button, mouse-move or wheel event:
\* `*last_activity_clone.lock() = Instant::now()`
InputEvent ==
    /\ idle' = [idle EXCEPT !.last_activity = idle.now]
    /\ last' = [NoStep EXCEPT !.by = "input", !.op = "event"]
    /\ InputFrame

\* (mutant) a check that finds the user not clocked in keeps the tracking
IdleOutcome_NoReset(i, clocked_in) ==
    LET is_idle == i.now - i.last_activity >= IDLE_THRESHOLD_SECS
    IN IF is_idle /\ ~i.was_idle /\ clocked_in THEN "became_idle"
       ELSE IF ~is_idle /\ i.was_idle /\ clocked_in
            THEN IF i.idle_start # NoInstant THEN "idle_detected" ELSE "returned"
       ELSE "none"

\* what a check read: `is_idle` and `is_clocked_in`, kept as history of the
\* idle periods the checks have seen and the events have reported
Observed(i, clocked_in, out) ==
    LET is_idle == i.now - i.last_activity >= IDLE_THRESHOLD_SECS
        seen == IF ~clocked_in THEN NoInstant
                ELSE IF is_idle THEN i.last_activity
                ELSE i.seen
    IN [i EXCEPT !.seen = seen,
                 !.reported = IF out = "idle_detected" THEN Append(@, i.seen) ELSE @]

\* the branch a check takes on what it read
IdleOutcome(i, clocked_in) ==
    LET is_idle == i.now - i.last_activity >= IDLE_THRESHOLD_SECS
    IN IF is_idle /\ ~i.was_idle /\ clocked_in THEN "became_idle"
       ELSE IF ~is_idle /\ i.was_idle /\ clocked_in
            THEN IF i.idle_start # NoInstant THEN "idle_detected" ELSE "returned"
       ELSE IF ~clocked_in THEN "reset"
       ELSE "none"

\* (mutant) the checker clocks the user out when it sees the idle period
IdleFrame_ClockOut(out) ==
    /\ is_clocked_in' = IF out = "became_idle" THEN FALSE ELSE is_clocked_in
    /\ UNCHANGED <<queue, nextId, session_token, webapp_url, clock,
                   remote_clocked_in, cmd, sync, storage, network, locks, logout, acked>>

\* what a check leaves alone: AppState is only read (`state.is_clocked_in()`)
IdleFrame(out) ==
    UNCHANGED <<queue, nextId, session_token, webapp_url, is_clocked_in, clock,
                remote_clocked_in, cmd, sync, storage, network, locks, logout, acked>>

\* one pass of the checker's loop after its sleep; the event it emits is
\* idle_detected with idle_duration_ms = idle_start.elapsed()
IdleCheck ==
    LET out == IdleOutcome(idle, is_clocked_in)
        seen == Observed(idle, is_clocked_in, out) IN
    /\ idle' = CASE out = "became_idle" ->
                        [seen EXCEPT !.idle_start = idle.last_activity,
                                     !.was_idle = TRUE, !.event = NoInstant]
                 [] out = "idle_detected" ->
                        [seen EXCEPT !.idle_start = NoInstant, !.was_idle = FALSE,
                                     !.event = (idle.now - idle.idle_start) * 1000]
                 [] out \in {"returned", "reset"} ->
                        [seen EXCEPT !.idle_start = NoInstant, !.was_idle = FALSE,
                                     !.event = NoInstant]
                 [] OTHER -> [seen EXCEPT !.event = NoInstant]
    /\ last' = [NoStep EXCEPT !.by = "idle", !.op = "check", !.path = out,
                              !.status = is_clocked_in]
    /\ IdleFrame(out)

IdleStep ==
    \/ InputEvent
    \/ IdleCheck
    \/ \E d \in Pauses : TimePasses(d)

IdleNext ==
    \/ IdleStep
    \/ SyncStep
    \/ Login
    \/ Logout

\* a queue file with an action that was given up and a two-step action
\* still to replay
InitIdle ==
    /\ queue = <<SeedRow(1, "ClockOut", None, MAX_RETRY),
                 SeedRow(2, "ClockOutWithBreak", GoodBreak, MAX_RETRY - 1)>>
    /\ nextId = 3
    /\ session_token = Token
    /\ webapp_url = Url
    /\ is_clocked_in = FALSE
    /\ clock = 0
    /\ remote_clocked_in \in BOOLEAN
    /\ cmd = CmdIdle
    /\ sync = SyncIdle
    /\ storage = "reliable"
    /\ network = "unreliable"
    /\ idle = IdleStart(0)
    /\ locks = LocksFree
    /\ logout = LogoutIdle
    /\ acked = {}
    /\ last = NoStep

SpecIdle == InitIdle /\ [][IdleNext]_vars

\* the user is away for a whole idle threshold (no input in that time)
Away ==
    /\ idle.now + IDLE_THRESHOLD_SECS <= MaxAway * IDLE_THRESHOLD_SECS
    /\ idle' = [idle EXCEPT !.now = @ + IDLE_THRESHOLD_SECS]
    /\ last' = NoStep
    /\ UNCHANGED <<queue, nextId, session_token, webapp_url, is_clocked_in, clock,
                   remote_clocked_in, cmd, sync, storage, network, locks, logout, acked>>

\* the idle monitor over several absences: the user is at the machine (an
\* input event at any moment) or away for a whole threshold, and the checker
\* runs at any moment in between
AwayNext ==
    \/ InputEvent
    \/ IdleCheck
    \/ Away
    \/ SyncStep
    \/ Login
    \/ Logout

SpecAway == InitIdle /\ [][AwayNext]_vars

----------------------------------------------------------------------------
(* The locks.  AppState holds session_token, settings and is_clocked_in    *)
(* each behind its own RwLock and the queue behind a Mutex; the idle       *)
(* monitor has last_activity behind a Mutex.  Here every acquisition,      *)
(* every release (the guard going out of scope) and every request is a     *)
(* step, and the data is left out: an operation is the sequence of lock    *)
(* operations and requests of one path through its code.  The locks are    *)
(* parking_lot's, which are eventually fair (a waiter is not overtaken for *)
(* ever, and readers queue behind a waiting writer): a lock goes to those  *)
(* who asked for it in the order they asked.  Every actor is a running     *)
(* thread or task, so it takes its next step when it can.                  *)

Acquire(lock, mode) == <<"acquire", lock, mode>>
Release(lock) == <<"release", lock>>
Request(api) == <<"request", api, "await">>

\* AppState::get_session_token, set_session_token, set_clocked_in,
\* is_clocked_in: the guard is a temporary of one statement.  (settings is
\* only read on these paths, by get_webapp_url, and is left out.)
get_session_token == <<Acquire("session_token", "read"), Release("session_token")>>
set_session_token == <<Acquire("session_token", "write"), Release("session_token")>>
set_clocked_in == <<Acquire("is_clocked_in", "write"), Release("is_clocked_in")>>
read_clocked_in == <<Acquire("is_clocked_in", "read"), Release("is_clocked_in")>>

\* (mutant) the queue is locked before the request is sent and kept through
\* it
CmdQueuedPath_LockFirst(kind) ==
    get_session_token
    \o <<Acquire("offline_queue", "lock"), Request("POST")>>
    \o (IF kind = "clock_out_with_break" THEN <<>> ELSE set_clocked_in)
    \o <<Release("offline_queue")>>

\* a command whose request failed with a network error: `queue` is locked for
\* the enqueue and, in clock_in and clock_out, still held in set_clocked_in;
\* the guard goes at the end of the block
CmdQueuedPath(kind) ==
    get_session_token
    \o <<Request("POST"), Acquire("offline_queue", "lock")>>
    \o (IF kind = "clock_out_with_break" THEN <<>> ELSE set_clocked_in)
    \o <<Release("offline_queue")>>

\* the paths of a command: rejected, synced, queued; and
\* get_pending_queue_count
CmdPaths ==
    { get_session_token \o <<Request("POST")>>,
      get_session_token
          \o <<Request("POST"), Request("GET status")>> \o set_clocked_in,
      <<Acquire("offline_queue", "lock"), Release("offline_queue")>> }
    \cup {CmdQueuedPath(kind) : kind \in Commands}

\* (mutant) the bookkeeping takes is_clocked_in first and the queue inside it
ReplayPath_Nested ==
    <<Request("POST"), Acquire("is_clocked_in", "write"),
      Acquire("offline_queue", "lock"), Release("offline_queue"),
      Release("is_clocked_in")>>

\* one action of a cycle: the request, then mark_completed or
\* increment_retry under the queue lock
ReplayPath ==
    <<Request("POST"), Acquire("offline_queue", "lock"), Release("offline_queue")>>

\* the cycles of the queue processor: on an empty snapshot, and with an
\* action replayed and the status stored
SyncPaths ==
    LET head == get_session_token
                \o <<Acquire("offline_queue", "lock"), Release("offline_queue")>>
    IN { head,
         head \o ReplayPath \o <<Request("GET status")>> \o set_clocked_in }

\* logout, and handle_oauth_callback with a token that is accepted
AuthPaths ==
    { set_session_token \o set_clocked_in,
      <<Request("GET status")>> \o set_session_token }

\* a pass of the idle checker
IdlePaths ==
    { <<Acquire("last_activity", "lock"), Release("last_activity")>> \o read_clocked_in }

\* the listener's callback
InputPaths == { <<Acquire("last_activity", "lock"), Release("last_activity")>> }

Paths(a) ==
    CASE a = "cmd" -> CmdPaths
      [] a = "sync" -> SyncPaths
      [] a = "auth" -> AuthPaths
      [] a = "idle" -> IdlePaths
      [] a = "input" -> InputPaths

\* the lock operation actor a is at
Asked(a) == Head(locks.at[a])

\* actor a can take the lock it asked for: an RwLock goes to readers together
\* or to one writer, a Mutex to one holder (none is reentrant), and nobody
\* who asked for the same lock earlier is still waiting
Grantable(a) ==
    /\ \A h \in locks.held :
          h[2] = Asked(a)[2] => (Asked(a)[3] = "read" /\ h[3] = "read")
    /\ Head(locks.waiting[Asked(a)[2]]) = a

\* the waiting actors once actor a, who waited or not, is at `rest`
Queued(a, rest) ==
    [l \in Locks |->
        LET others == SelectSeq(locks.waiting[l], LAMBDA b : b # a)
        IN IF rest # <<>> /\ Head(rest)[1] = "acquire" /\ Head(rest)[2] = l
           THEN Append(others, a) ELSE others]

LockFrame ==
    UNCHANGED <<queue, nextId, session_token, webapp_url, is_clocked_in, clock,
                remote_clocked_in, cmd, sync, storage, network, idle, logout,
                acked, last>>

\* actor a enters an operation
LockEnter(a) ==
    /\ locks.at[a] = <<>>
    /\ \E path \in Paths(a) :
          locks' = [locks EXCEPT !.at[a] = path, !.waiting = Queued(a, path)]
    /\ LockFrame

\* actor a takes its next step: it gets the lock it asks for (and blocks
\* while it cannot), drops a guard, or has its request answered
LockProceed(a) ==
    /\ locks.at[a] # <<>>
    /\ LET op == Asked(a) IN
       /\ op[1] = "acquire" => Grantable(a)
       /\ locks' = [held |-> CASE op[1] = "acquire" ->
                                    locks.held \cup {<<a, op[2], op[3]>>}
                               [] op[1] = "release" ->
                                    {h \in locks.held : ~(h[1] = a /\ h[2] = op[2])}
                               [] OTHER -> locks.held,
                     at |-> [locks.at EXCEPT ![a] = Tail(@)],
                     waiting |-> Queued(a, Tail(locks.at[a]))]
    /\ LockFrame

LockNext == \E a \in Actors : LockEnter(a) \/ LockProceed(a)

InitLocks ==
    /\ Init
    /\ session_token = Token
    /\ webapp_url = Url
    /\ remote_clocked_in = FALSE

SpecLocks ==
    InitLocks /\ [][LockNext]_vars /\ \A a \in Actors : WF_vars(LockProceed(a))

----------------------------------------------------------------------------
(* The running program through an outage that ends: the queue file holds   *)
(* the actions earlier commands left there, the remote service cannot      *)
(* always be reached, and at some moment every request goes through again. *)
(* The queue processor is a task of the runtime that is never cancelled:   *)
(* its sleep ends and each of its requests is answered, so it always takes *)
(* its next step.                                                          *)

\* connectivity returns: from here on every request is answered with success
NetworkRecovers ==
    /\ network = "unreliable"
    /\ network' = "reliable"
    /\ last' = NoStep
    /\ UNCHANGED <<queue, nextId, session_token, webapp_url, is_clocked_in, clock,
                   remote_clocked_in, cmd, sync, storage, idle, locks, logout, acked>>

\* queue files left by commands that were answered optimistically
OutageQueues ==
    { <<SeedRow(1, "ClockIn", None, MAX_RETRY - 1),
        SeedRow(2, "ClockOutWithBreak", GoodBreak, MAX_RETRY - 2)>>,
      <<SeedRow(1, "ClockOut", None, MAX_RETRY)>> }

InitOutage ==
    /\ queue \in OutageQueues
    /\ nextId = Len(queue) + 1
    /\ session_token = Token
    /\ webapp_url = Url
    /\ is_clocked_in \in BOOLEAN
    /\ clock = 0
    /\ remote_clocked_in \in BOOLEAN
    /\ cmd = CmdIdle
    /\ sync = SyncIdle
    /\ storage = "reliable"
    /\ network = "unreliable"
    /\ idle = IdleStart(0)
    /\ locks = LocksFree
    /\ logout = LogoutIdle
    /\ acked = {}
    /\ last = NoStep

OutageNext ==
    \/ CmdStep
    \/ SyncStep
    \/ NetworkRecovers

SpecOutage == InitOutage /\ [][OutageNext]_vars /\ WF_vars(SyncStep)

----------------------------------------------------------------------------
(* The queue processor across sessions: the queue file holds the actions   *)
(* that commands of the session of Token left there; the user logs out and *)
(* a login brings the same or another token while the processor runs.      *)

\* the queue the first session leaves: one action with retries left and a
\* two-step action at its last attempt
SessionQueue ==
    <<SeedRow(1, "ClockIn", None, MAX_RETRY - 2),
      SeedRow(2, "ClockOutWithBreak", GoodBreak, MAX_RETRY - 1)>>

InitSessions ==
    /\ queue = SessionQueue
    /\ nextId = Len(queue) + 1
    /\ session_token = Token
    /\ webapp_url = Url
    /\ is_clocked_in \in BOOLEAN
    /\ clock = 0
    /\ remote_clocked_in \in BOOLEAN
    /\ cmd = CmdIdle
    /\ sync = SyncIdle
    /\ storage = "reliable"
    /\ network = "unreliable"
    /\ idle = IdleStart(0)
    /\ locks = LocksFree
    /\ logout = LogoutIdle
    /\ acked = {}
    /\ last = NoStep

SessionsNext ==
    \/ SyncStep
    \/ \E token \in Tokens : LoginAs(token)
    \/ Logout

SpecSessions == InitSessions /\ [][SessionsNext]_vars

----------------------------------------------------------------------------
(* Properties *)

Range(s) == {s[k] : k \in 1..Len(s)}

\* C1: no action is silently lost.  Every rowid the queue ever gave out
\* (1..nextId-1) is still a row of the table, or its replay was answered with
\* success by the remote service; rows are never duplicated.  Holds across
\* process restarts at any step.
C1_NoSilentLoss ==
    /\ \A id \in 1..(nextId - 1) : id \in Ids(queue) \/ id \in acked
    /\ Ids(queue) \subseteq 1..(nextId - 1)
    /\ Cardinality(Ids(queue)) = Len(queue)

\* C1 witness: after a restart, one action is gone after its successful
\* replay and another is still queued with the retries it has counted
C1_Witness ==
    /\ last.op = "restart"
    /\ \E id \in acked : id \notin Ids(queue)
    /\ \E i \in 1..Len(queue) : queue[i].retry_count > 0

\* C2: get_pending returns the rows that were not removed in the order they
\* were enqueued (ascending id), whatever enqueue, mark_completed and
\* increment_retry calls came before.
C2_PendingInEnqueueOrder == get_pending(queue) = queue

\* C3: a command whose direct call failed with a network error has enqueued
\* exactly one action of its kind (payload: the break start for a break,
\* none otherwise; retry_count 0), has stored is_clocked_in = true (clock_in,
\* clock_out_with_break) or false (clock_out), and returns Ok with that value.
C3_QueuedOptimistic ==
    last.path = "queued" =>
        /\ last.queued = 1
        /\ LET a == queue[Len(queue)]
           IN /\ a.action_type = (CASE last.kind = "clock_in" -> "ClockIn"
                                    [] last.kind = "clock_out" -> "ClockOut"
                                    [] last.kind = "clock_out_with_break"
                                          -> "ClockOutWithBreak")
              /\ a.payload = (IF last.kind = "clock_out_with_break"
                              THEN GoodBreak ELSE None)
              /\ a.retry_count = 0
        /\ is_clocked_in = (last.kind \in {"clock_in", "clock_out_with_break"})
        /\ last.ret = "Ok"
        /\ last.status = is_clocked_in

\* C4: a command whose direct call and status fetch both succeeded has
\* enqueued nothing, has stored the fetched value in is_clocked_in, whatever
\* was there before, and returns the fetched status.
C4_DirectSuccess ==
    /\ (last.by = "cmd" /\ last.path # "queued") => last.queued = 0
    /\ last.path = "synced" =>
          /\ is_clocked_in = remote_clocked_in
          /\ last.status = remote_clocked_in
          /\ last.ret = "Ok"
          /\ cmd.pc = "idle"

\* C4 witness: the fetched value replaces a different, optimistic value
\* while the action that set it is still queued
C4_Witness ==
    /\ last.path = "synced"
    /\ last.was = TRUE
    /\ is_clocked_in = FALSE
    /\ \E i \in 1..Len(queue) : queue[i].action_type = "ClockIn"

\* C5: an action with retry_count >= 5 is never dispatched (no request of a
\* cycle is for a row whose retry_count is 5 or more), no step removes it or
\* changes it, so it stays counted; count() is the length of get_pending().
C5_Dispatched ==
    sync.pc \in {"call2", "record"} =>
        /\ Current.retry_count < MAX_RETRY
        /\ \A i \in 1..Len(queue) :
              queue[i].id = Current.id => queue[i].retry_count < MAX_RETRY

C5_Kept ==
    \A i \in 1..Len(queue) :
        queue[i].retry_count >= MAX_RETRY =>
            \E j \in 1..Len(queue') : queue'[j] = queue[i]

C5_StuckActions ==
    /\ [](C5_Dispatched /\ count(queue) = Len(get_pending(queue)))
    /\ [][C5_Kept]_vars

\* C5 witness: a cycle has passed over an action with 5 retries without a
\* request, the action is still a row, and the cycle is at the next action
C5_Witness ==
    /\ sync.pc = "record"
    /\ sync.i = 2
    /\ sync.pending[1].retry_count >= MAX_RETRY
    /\ sync.dispatched = <<sync.pending[2].id>>
    /\ \E i \in 1..Len(queue) : queue[i] = sync.pending[1]
    /\ count(queue) = 2

\* C6: when the replay of an action succeeded, the bookkeeping step removes
\* exactly that row: the other rows stay as they are, in their order.  An
\* action that was skipped does not stop the cycle: at the end of the loop
\* every action of the snapshot with fewer than 5 retries has been dispatched.
C6_RemovesOne ==
    (sync.pc = "record" /\ sync.result = "ok" /\ sync'.pc = "loop") =>
        \E k \in 1..Len(queue) :
            /\ queue[k].id = Current.id
            /\ queue' = SubSeq(queue, 1, k - 1) \o SubSeq(queue, k + 1, Len(queue))

C6_AllAttempted ==
    (sync.pc = "loop" /\ sync.i > Len(sync.pending)) =>
        \A k \in 1..Len(sync.pending) :
            sync.pending[k].retry_count < MAX_RETRY
                => sync.pending[k].id \in Range(sync.dispatched)

C6_ReplaySuccess == [][C6_RemovesOne]_vars /\ []C6_AllAttempted

\* C6 witness: the first action of the snapshot was skipped at 5 retries and
\* is still queued unchanged, the second was replayed with success and removed
C6_Witness ==
    /\ sync.pc = "loop"
    /\ sync.i = 3
    /\ sync.pending[1].retry_count >= MAX_RETRY
    /\ sync.applied = <<sync.pending[2].id>>
    /\ queue = <<sync.pending[1]>>

\* C7: a ClockOutWithBreak action whose payload is missing or does not parse
\* is attempted without a request, its retry_count goes up by exactly 1, it
\* stays queued, and the cycle goes on: at the end of the loop the later
\* actions that could be dispatched have been.
InvalidBreak(a) ==
    /\ a.action_type = "ClockOutWithBreak"
    /\ a.payload \notin Rfc3339Strings

C7_InvalidPayload ==
    sync.pc # "sleep" =>
        \A k \in 1..Len(sync.pending) :
            LET a == sync.pending[k] IN
            /\ (k < sync.i /\ InvalidBreak(a) /\ a.retry_count < MAX_RETRY) =>
                  /\ a.id \notin Range(sync.dispatched)
                  /\ a.id \in Ids(queue)
                  /\ Row(queue, a.id).retry_count = a.retry_count + 1
            /\ (sync.pc = "loop" /\ sync.i > Len(sync.pending)
                  /\ ~InvalidBreak(a) /\ a.retry_count < MAX_RETRY) =>
                  a.id \in Range(sync.dispatched)

\* C7 witness: the unparseable action was attempted (retry_count 0 -> 1, still
\* queued) and the cycle has dispatched the action after it
C7_Witness ==
    /\ sync.pc = "record"
    /\ sync.i = 2
    /\ InvalidBreak(sync.pending[1])
    /\ sync.pending[1].payload = BadBreak
    /\ sync.pending[1].retry_count = 0
    /\ Row(queue, sync.pending[1].id).retry_count = 1
    /\ sync.dispatched = <<sync.pending[2].id>>

\* C8: effects are not reordered: no action is replayed with success while
\* an action enqueued before it (a smaller id) is still queued.
C8_AppliedInEnqueueOrder ==
    (sync.pc = "record" /\ sync.result = "ok") =>
        \A i \in 1..Len(queue) : queue[i].id >= Current.id

\* C9: within a cycle the actions are dispatched in the order they were
\* enqueued: the ids of the requests of a cycle are ascending.
C9_DispatchInEnqueueOrder ==
    \A a, b \in 1..Len(sync.dispatched) :
        a < b => sync.dispatched[a] < sync.dispatched[b]

\* C10: a command called without a session token or with an empty webapp_url
\* returns its error at once: no request, nothing enqueued, is_clocked_in as
\* before, nothing left in flight.
C10_NotReady ==
    (/\ last.by = "cmd"
     /\ last.op = "start" \/ last.path = "precondition"
     /\ session_token = None \/ webapp_url = "") =>
        /\ last.op = "return"
        /\ last.ret \in {"Not authenticated", "Webapp URL not configured"}
        /\ last.ret = "Not authenticated" <=> session_token = None
        /\ last.api = None
        /\ last.queued = 0
        /\ is_clocked_in = last.was
        /\ cmd.pc = "idle"

\* C10 witness: a command refused for want of a token while actions are
\* queued and the local state says clocked in
C10_Witness ==
    /\ last.path = "precondition"
    /\ last.ret = "Not authenticated"
    /\ session_token = None
    /\ queue # <<>>
    /\ is_clocked_in

\* C11: when the direct call of a command fails with an error that is not a
\* network error, the command returns the error and the step changes neither
\* the queue (no row added, none changed) nor is_clocked_in.
C11_RejectedStep ==
    (last'.by = "cmd" /\ last'.path = "rejected") =>
        /\ cmd.pc \in {"call", "call2"}
        /\ last'.ret = "Err"
        /\ last'.status = None
        /\ queue' = queue
        /\ nextId' = nextId
        /\ is_clocked_in' = is_clocked_in
        /\ cmd'.pc = "idle"

C11_NonTransientFailure == [][C11_RejectedStep]_vars

\* C11 witness: a clock_out was rejected by the remote while an action is
\* queued and the optimistic state says clocked in; both are as before
C11_Witness ==
    /\ last.path = "rejected"
    /\ last.kind = "clock_out"
    /\ last.queued = 0
    /\ queue # <<>>
    /\ is_clocked_in
    /\ last.was = TRUE

\* C12: enqueue never fails silently: a command that answers its caller with
\* the optimistic success status has persisted exactly one action; when the
\* write of enqueue failed the command returns an error and is_clocked_in is
\* as before.
C12_EnqueueNotSilent ==
    (last.by = "cmd" /\ last.op = "return" /\ last.api # None
        /\ last.api # "GET status" /\ last.queued = 0) =>
        /\ last.ret = "Err"
        /\ is_clocked_in = last.was

\* C13: a cycle that finds no session token at its start ends there: the
\* processor is back at its sleep, so it sends no request, and the step
\* changes neither the queue nor is_clocked_in (nor the remote state), also
\* when actions are queued.
C13_WakeWithoutToken ==
    (last'.by = "sync" /\ last'.op = "wake" /\ session_token = None) =>
        /\ sync' = sync
        /\ sync'.pc = "sleep"
        /\ queue' = queue
        /\ is_clocked_in' = is_clocked_in
        /\ remote_clocked_in' = remote_clocked_in
        /\ acked' = acked

C13_NoTokenCycle == [][C13_WakeWithoutToken]_vars

\* C13 witness: the processor woke without a session token while an action
\* is queued and the local state says clocked in, and is asleep again
C13_Witness ==
    /\ last.by = "sync"
    /\ last.op = "wake"
    /\ session_token = None
    /\ webapp_url # ""
    /\ queue # <<>>
    /\ is_clocked_in
    /\ sync.pc = "sleep"

\* C14: a cycle whose snapshot is empty ends at once: no replay request (the
\* processor is back at its sleep), the queue and is_clocked_in are as they
\* were.  The step changes nothing, so any number of such cycles leave what
\* one of them leaves.
C14_WakeOnEmptyQueue ==
    (last'.by = "sync" /\ last'.op = "wake" /\ get_pending(queue) = <<>>) =>
        /\ sync' = sync
        /\ sync'.pc = "sleep"
        /\ queue' = queue
        /\ is_clocked_in' = is_clocked_in
        /\ remote_clocked_in' = remote_clocked_in
        /\ acked' = acked

C14_EmptyCycle == [][C14_WakeOnEmptyQueue]_vars

\* C14 witness: logged in, an earlier cycle has emptied the queue; the
\* processor woke on the empty queue and is asleep again, with a local state
\* that differs from the remote one
C14_Witness ==
    /\ last.by = "sync"
    /\ last.op = "wake"
    /\ session_token = Token
    /\ webapp_url = Url
    /\ queue = <<>>
    /\ acked # {}
    /\ is_clocked_in # remote_clocked_in
    /\ sync.pc = "sleep"

\* C15: in a cycle with a non-empty snapshot every action of the snapshot is
\* dispatched at most once (so at most one operation per pending action), and
\* the status is fetched exactly once: the fetch is the step that ends the
\* cycle, it comes when the loop has gone through the whole snapshot, each
\* action attempted or skipped, and its Ok value is stored in is_clocked_in.
C15_DispatchedOnce ==
    sync.pc # "sleep" =>
        /\ Len(sync.pending) > 0
        /\ \A a, b \in 1..Len(sync.dispatched) :
              a # b => sync.dispatched[a] # sync.dispatched[b]
        /\ Range(sync.dispatched) \subseteq
              {sync.pending[k].id : k \in {j \in 1..Len(sync.pending) : j <= sync.i}}
        /\ Len(sync.dispatched) <= Len(sync.pending)

C15_StatusStep ==
    /\ (last'.by = "sync" /\ last'.op = "status") =>
          /\ sync.pc = "loop"
          /\ sync.i = Len(sync.pending) + 1
          /\ \A k \in 1..Len(sync.pending) :
                \/ sync.pending[k].id \in Range(sync.dispatched)
                \/ TooManyRetries(sync.pending[k])
                \/ PayloadError(sync.pending[k]) # None
          /\ sync'.pc = "sleep"
          /\ last'.ret = "Ok" => is_clocked_in' = remote_clocked_in
          /\ last'.ret = "Err" => is_clocked_in' = is_clocked_in
    /\ (sync.pc # "sleep" /\ sync'.pc = "sleep") =>
          \/ last'.by = "sync" /\ last'.op = "status"
          \/ last'.op = "restart"

C15_OneStatusFetch == []C15_DispatchedOnce /\ [][C15_StatusStep]_vars

\* C15 witness: a cycle on two actions, the first failed and the second
\* replayed, has ended with a status fetch that changed is_clocked_in
C15_Witness ==
    /\ last.by = "sync"
    /\ last.op = "status"
    /\ last.ret = "Ok"
    /\ is_clocked_in
    /\ Len(queue) = 1
    /\ queue[1].retry_count = 1
    /\ acked # {}

\* C16: no error stops the queue processor.  A failed replay leads to the
\* retry-count increment of that action at most, and the loop goes on to the
\* next action; a failed read of the snapshot ends the cycle with everything
\* as it was; a failed status fetch leaves is_clocked_in as it was and ends
\* the cycle; and in every state the processor has a next step.
C16_ErrorStep ==
    /\ (sync.pc = "record" /\ sync.result # "ok" /\ sync'.pc = "loop") =>
          /\ Len(queue') = Len(queue)
          /\ \A j \in 1..Len(queue) :
                IF queue[j].id = Current.id
                THEN \/ queue'[j] = queue[j]
                     \/ queue'[j] = [queue[j] EXCEPT !.retry_count = @ + 1]
                ELSE queue'[j] = queue[j]
          /\ sync' = [sync EXCEPT !.pc = "loop", !.i = @ + 1, !.result = None]
          /\ is_clocked_in' = is_clocked_in
    /\ (last'.by = "sync" /\ last'.op = "wake" /\ last'.path = "read_failed") =>
          /\ sync' = sync
          /\ sync'.pc = "sleep"
          /\ queue' = queue
          /\ is_clocked_in' = is_clocked_in
    /\ (last'.by = "sync" /\ last'.op = "status" /\ last'.ret = "Err") =>
          /\ is_clocked_in' = is_clocked_in
          /\ queue' = queue
          /\ sync' = SyncIdle

C16_LoopNeverStops == [](ENABLED SyncStep) /\ [][C16_ErrorStep]_vars

\* C16 witness: after a cycle with a failed replay (retry counted) and a
\* failed status fetch, the next cycle failed to read the snapshot and the
\* processor is asleep again, is_clocked_in still as the command left it
C16_Witness ==
    /\ last.by = "sync"
    /\ last.op = "wake"
    /\ last.path = "read_failed"
    /\ sync.pc = "sleep"
    /\ Len(queue) = 1
    /\ queue[1].retry_count = 1
    /\ acked = {}
    /\ is_clocked_in
    /\ ~remote_clocked_in

\* C17: effects are not duplicated: an action whose replay the remote has
\* answered with success is never dispatched again, in this cycle or a later
\* one, whatever happens between the answer and the removal.
C17_DispatchOfReplayed ==
    Len(sync'.dispatched) > Len(sync.dispatched) =>
        sync'.dispatched[Len(sync'.dispatched)] \notin acked

C17_NoDuplicateReplay == [][C17_DispatchOfReplayed]_vars

\* C17 as amended: delivery is at-least-once.  Every action the processor
\* dispatches is a row of the queue at that moment: an action that was
\* removed is never dispatched again, while one whose removal did not happen
\* after the remote success (process exit, failed DELETE) still is a row and
\* is replayed again.
C17_DispatchOfQueued ==
    Len(sync'.dispatched) > Len(sync.dispatched) =>
        sync'.dispatched[Len(sync'.dispatched)] \in Ids(queue)

C17_RemovedNeverReplayed == [][C17_DispatchOfQueued]_vars

\* C17 witness: an action whose replay the remote answered with success is,
\* after a restart, still queued and has been dispatched a second time
C17_Witness ==
    /\ sync.pc = "record"
    /\ Current.id \in acked
    /\ sync.result # "ok"
    /\ Current.id \in Ids(queue)
    /\ sync.dispatched = <<Current.id>>

\* C18: mark_completed is idempotent.  For every table the queue can hold and
\* every id, also one already removed and one never given out: removing the
\* id a second time changes nothing more, removing an id that is not a row
\* changes nothing at all, and every other row keeps its place among the
\* others and its contents.
C18_RemoveIdempotent ==
    \A id \in 1..(MaxActions + 1) :
        LET once == mark_completed(queue, id)
            others == {i \in 1..Len(queue) : queue[i].id # id}
        IN /\ mark_completed(once, id) = once
           /\ id \notin Ids(queue) => once = queue
           /\ Len(once) = Cardinality(others)
           /\ \A i \in others :
                 once[Cardinality({j \in others : j <= i})] = queue[i]

\* C18 witness: the row of id 1 was removed, the row of id 2 is queued with a
\* retry counted; removing id 1 again, or id 3 that never existed, leaves it
C18_Witness ==
    /\ nextId = 3
    /\ Ids(queue) = {2}
    /\ queue[1].retry_count > 0
    /\ mark_completed(queue, 1) = queue
    /\ mark_completed(queue, 3) = queue

\* C19: a reader of {is_clocked_in, session_token} never sees a two-field
\* update half applied: the pair that is visible after the first write of
\* logout is the pair from before the logout or the pair the logout leaves
\* (no token, not clocked in).
C19_FirstWrite ==
    (logout = "idle" /\ logout' = "reset") =>
        \/ <<session_token', is_clocked_in'>> = <<session_token, is_clocked_in>>
        \/ <<session_token', is_clocked_in'>> = <<None, FALSE>>

C19_ConsistentPair == [][C19_FirstWrite]_vars

\* C20: when logout returns there is no session token and is_clocked_in is
\* false.
C20_LoggedOut ==
    (last.by = "auth" /\ last.op = "logout") =>
        /\ session_token = None
        /\ is_clocked_in = FALSE


\* C21: reconciliation eventually happens.  With the queue processor always
\* taking its next step, a session token and a webapp_url in place, and every
\* request answered with success from some moment on: every queued action
\* that has fewer than 5 retries once the failures answered before that
\* moment are counted is eventually removed from the queue; and the
\* processor reaches the end of a cycle (its status fetch) with no such action
\* left and is_clocked_in equal to the remote state.
C21_Replayable(id) ==
    /\ network = "reliable"
    /\ session_token # None
    /\ webapp_url # ""
    /\ id \in Ids(queue)
    /\ Row(queue, id).retry_count < MAX_RETRY
    /\ ~(sync.pc = "record" /\ sync.result # "ok" /\ Current.id = id)

C21_Reconciled ==
    /\ last.by = "sync"
    /\ last.op = "status"
    /\ last.ret = "Ok"
    /\ \A i \in 1..Len(queue) : queue[i].retry_count >= MAX_RETRY
    /\ is_clocked_in = remote_clocked_in

C22_ReadOnlyStep ==
    /\ last'.by \in {"idle", "input"} =>
          /\ is_clocked_in' = is_clocked_in
          /\ session_token' = session_token
          /\ queue' = queue
          /\ nextId' = nextId
    /\ last'.by = "input" =>
          idle' = [idle EXCEPT !.last_activity = idle.now]

C22_IdleReadOnly == [][C22_ReadOnlyStep]_vars

\* C22 witness: a check has emitted idle_detected for an idle period of five
\* minutes or more, while the user is logged in and clocked in and actions
\* are queued
C22_Witness ==
    /\ last.by = "idle"
    /\ last.path = "idle_detected"
    /\ idle.event >= IDLE_THRESHOLD_SECS * 1000
    /\ is_clocked_in
    /\ session_token = Token
    /\ queue # <<>>


\* C23: retries are bounded.  Every action is enqueued with retry_count 0;
\* retry_count changes only by +1, in the queue processor's bookkeeping of a
\* failed replay attempt of that same action; it never exceeds 5; and every
\* failed dispatch is counted (the processor's next step after a failed
\* answer is the +1 of that action), so that an action is dispatched
\* unsuccessfully at most 5 times over its lifetime.
C23_Bounded ==
    \A i \in 1..Len(queue) : queue[i].retry_count \in 0..MAX_RETRY

C23_FailedAttemptOf(id) ==
    \/ sync.pc = "record" /\ sync.result # "ok" /\ Current.id = id
    \/ /\ InLoop
       /\ Current.id = id
       /\ Current.retry_count < MAX_RETRY
       /\ PayloadError(Current) # None

C23_RetryStep ==
    /\ \A j \in 1..Len(queue') :
          LET r == queue'[j] IN
          IF r.id \in Ids(queue)
          THEN \/ r.retry_count = Row(queue, r.id).retry_count
               \/ /\ r.retry_count = Row(queue, r.id).retry_count + 1
                  /\ C23_FailedAttemptOf(r.id)
          ELSE r.retry_count = 0
    /\ Len(sync'.dispatched) > Len(sync.dispatched) =>
          /\ Current.id \in Ids(queue)
          /\ Row(queue, Current.id).retry_count < MAX_RETRY

C23_CountedStep ==
    (sync.pc = "record" /\ sync.result # "ok") =>
        \/ sync' = sync
        \/ Row(queue', Current.id).retry_count = Row(queue, Current.id).retry_count + 1

C23_AtMostFiveFailures ==
    /\ []C23_Bounded
    /\ [][C23_RetryStep]_vars
    /\ [][C23_CountedStep]_vars

\* C23 as amended: retry_count starts at 0, changes only by +1 in the
\* processor's bookkeeping of a failed attempt of that action, never exceeds
\* 5, and an action is dispatched only while its retry_count is below 5.  A
\* failed dispatch whose increment is not written (the process exits before
\* it) is not counted.
C23_CountedRetriesBounded ==
    /\ []C23_Bounded
    /\ [][C23_RetryStep]_vars

\* C23 witness: an action that started with no retries has failed five
\* counted times and the cycle has passed over it without a request
C23_Witness ==
    /\ sync.pc = "loop"
    /\ sync.i = 3
    /\ sync.pending[2].action_type = "ClockIn"
    /\ sync.pending[2].retry_count = MAX_RETRY
    /\ sync.pending[2].id \notin Range(sync.dispatched)
    /\ \E i \in 1..Len(queue) : queue[i] = sync.pending[2] /\ queue[i].id = 2
    /\ nextId = 3
    /\ sync.pending[1].action_type = "ClockOutWithBreak"


\* C24: no actor holds a lock of AppState or the queue mutex while one of its
\* own requests is in flight: whenever the next thing an actor does is to
\* await a request, it holds nothing.
C24_NoLockAcrossRequest ==
    \A a \in Actors :
        (locks.at[a] # <<>> /\ Head(locks.at[a])[1] = "request") =>
            \A h \in locks.held : h[1] # a

\* C24 witness: a command's request is in flight and the command will lock
\* the queue after it, while the queue processor holds the queue for its
\* bookkeeping and has its status fetch still to send
C24_Witness ==
    /\ Len(locks.at["cmd"]) > 1
    /\ Head(locks.at["cmd"])[1] = "request"
    /\ locks.at["cmd"][2] = Acquire("offline_queue", "lock")
    /\ <<"sync", "offline_queue", "lock">> \in locks.held
    /\ \E k \in 1..Len(locks.at["sync"]) : locks.at["sync"][k][1] = "request"

\* C25: no interleaving deadlocks.  The only nested acquisition is the
\* is_clocked_in write lock inside the queue mutex, by a command; nobody
\* takes the two the other way round; while any actor is inside an
\* operation some actor can take its next step; and every actor that asks
\* for a lock eventually holds it (it is no longer asking).
C25_LockOrder ==
    \A a \in Actors :
        (/\ locks.at[a] # <<>>
         /\ Head(locks.at[a])[1] = "acquire"
         /\ \E h \in locks.held : h[1] = a) =>
            /\ a = "cmd"
            /\ {h[2] : h \in {g \in locks.held : g[1] = a}} = {"offline_queue"}
            /\ Head(locks.at[a]) = Acquire("is_clocked_in", "write")

C25_CanProceed(a) ==
    /\ locks.at[a] # <<>>
    /\ Head(locks.at[a])[1] = "acquire" => Grantable(a)

C25_Progress ==
    (\E a \in Actors : locks.at[a] # <<>>) => \E a \in Actors : C25_CanProceed(a)

C25_Asks(a, lock) ==
    /\ locks.at[a] # <<>>
    /\ Head(locks.at[a])[1] = "acquire"
    /\ Head(locks.at[a])[2] = lock

C25_Waits(a) == \E lock \in Locks : C25_Asks(a, lock)

C25_NoDeadlock ==
    /\ [](C25_LockOrder /\ C25_Progress)
    /\ \A a \in Actors : C25_Waits(a) ~> ~C25_Waits(a)

\* C25 witness: a command holds the queue mutex and, inside it, the
\* is_clocked_in write lock, while the queue processor waits for the queue
\* mutex, the idle checker for is_clocked_in and logout for is_clocked_in
C25_Witness ==
    /\ <<"cmd", "offline_queue", "lock">> \in locks.held
    /\ <<"cmd", "is_clocked_in", "write">> \in locks.held
    /\ C25_Asks("sync", "offline_queue")
    /\ C25_Asks("idle", "is_clocked_in")
    /\ C25_Asks("auth", "is_clocked_in")


\* C26: the last authoritative read wins.  The status fetch that ends a
\* cycle, when it is answered, stores the remote value in is_clocked_in
\* whatever is there, also an optimistic value whose action a command
\* enqueued after the cycle took its snapshot; that action stays queued (the
\* step changes no row) and nothing of the earlier value is kept.
C26_StatusOverwrites ==
    (last'.by = "sync" /\ last'.op = "status" /\ last'.ret = "Ok") =>
        /\ is_clocked_in' = remote_clocked_in
        /\ remote_clocked_in' = remote_clocked_in
        /\ queue' = queue
        /\ nextId' = nextId

C26_LastReadWins == [][C26_StatusOverwrites]_vars

\* C26 witness: a clock_in was queued and answered optimistically after the
\* cycle had taken its snapshot (its row has not been attempted); the cycle
\* has ended with the status fetch, is_clocked_in is the remote false, and
\* the ClockIn is still pending
C26_Witness ==
    /\ last.by = "sync"
    /\ last.op = "status"
    /\ last.ret = "Ok"
    /\ Len(queue) = 2
    /\ queue[1].retry_count = MAX_RETRY
    /\ queue[2].action_type = "ClockIn"
    /\ queue[2].retry_count = 0
    /\ ~is_clocked_in
    /\ ~remote_clocked_in
    /\ session_token = Token
    /\ logout = LogoutIdle


\* C27: after a logout has completed and until a new session token is stored,
\* is_clocked_in stays false, and no command or cycle that read the token
\* before the logout makes a request with it or writes is_clocked_in.
C27_LoggedOutState == session_token = None /\ logout = LogoutIdle

C27_NoRequestStep ==
    (C27_LoggedOutState /\ C27_LoggedOutState') =>
        /\ ~(last'.by = "cmd" /\ last'.api # None)
        /\ ~(last'.by = "sync" /\ last'.op = "status")
        /\ Len(sync'.dispatched) <= Len(sync.dispatched)
        /\ is_clocked_in' = is_clocked_in

C27_StaysLoggedOut ==
    /\ [](C27_LoggedOutState => is_clocked_in = FALSE)
    /\ [][C27_NoRequestStep]_vars


\* C28: the replay of a ClockOutWithBreak is two requests, the clock-out and
\* then the clock-in, and it succeeds only when both do.  Every attempt
\* starts with the clock-out; a clock-out that is answered leaves the remote
\* clocked out and the replay unfinished; the action is removed only after
\* the clock-in was answered too; when either request fails the action
\* stays queued with retry_count + 1, so the next attempt sends the clock-out
\* again.
C28_Break == sync.pc # "sleep" /\ sync.i \in 1..Len(sync.pending)
             /\ Current.action_type = "ClockOutWithBreak"

C28_BreakStep ==
    /\ (C28_Break /\ sync.pc = "loop" /\ sync' # sync /\ sync'.pc # "sleep"
           /\ Current.retry_count < MAX_RETRY /\ PayloadError(Current) = None) =>
          /\ sync'.dispatched = Append(sync.dispatched, Current.id)
          /\ acked' = acked
          /\ queue' = queue
          /\ \/ sync'.pc = "call2" /\ remote_clocked_in' = FALSE
             \/ /\ sync'.pc = "record"
                /\ sync'.result \in RemoteErrors
                /\ remote_clocked_in' = remote_clocked_in
    /\ (C28_Break /\ sync.pc = "call2" /\ sync' # sync /\ sync'.pc # "sleep") =>
          /\ sync'.pc = "record"
          /\ queue' = queue
          /\ IF sync'.result = "ok"
             THEN remote_clocked_in' = TRUE /\ acked' = acked \cup {Current.id}
             ELSE remote_clocked_in' = remote_clocked_in /\ acked' = acked
    /\ (C28_Break /\ sync.pc = "record" /\ sync' # sync /\ sync'.pc # "sleep") =>
          IF sync.result = "ok"
          THEN Current.id \in acked /\ Current.id \notin Ids(queue')
          ELSE /\ Current.id \in Ids(queue')
               /\ Row(queue', Current.id).retry_count
                     = Row(queue, Current.id).retry_count + 1

C28_BreakReplay == [][C28_BreakStep]_vars

\* C28 witness: in a second attempt of a break the clock-out was answered
\* again and the clock-in failed again: the remote is clocked out, the replay
\* was never acknowledged, and the action is queued with a retry counted
C28_Witness ==
    /\ C28_Break
    /\ sync.pc = "record"
    /\ sync.result \in RemoteErrors
    /\ Current.id \notin acked
    /\ Row(queue, Current.id).retry_count = Current.retry_count
    /\ Current.retry_count = MAX_RETRY - 1
    /\ acked = {1}
    /\ sync.dispatched = <<Current.id>>
    /\ ~remote_clocked_in
    /\ cmd.pc = "idle"


\* C29: when the direct call of a command succeeded and the status fetch
\* after it fails, the command returns an error, enqueues nothing and leaves
\* is_clocked_in as it was, although the remote has recorded the entry.
\* Nothing else repairs the value: is_clocked_in changes only in a step that
\* stores a fetched status, in the optimistic branch of a command, in logout
\* or at a restart.
C29_StatusFailed ==
    last.path = "status_failed" =>
        /\ last.by = "cmd"
        /\ last.op = "return"
        /\ last.api = "GET status"
        /\ last.ret = "Err"
        /\ last.status = None
        /\ last.queued = 0
        /\ is_clocked_in = last.was
        /\ cmd.pc = "idle"

C29_WriteStep ==
    is_clocked_in' # is_clocked_in =>
        \/ last'.by = "cmd" /\ last'.path = "synced"
        \/ last'.by = "sync" /\ last'.op = "status" /\ last'.ret = "Ok"
        \/ last'.by = "cmd" /\ last'.path = "queued"
        \/ last'.by = "auth" /\ last'.op = "logout"
        \/ last'.by = "env" /\ last'.op = "restart"

C29_StatusFetchFails == []C29_StatusFailed /\ [][C29_WriteStep]_vars

\* C29 witness: a clock_in went through (the remote is clocked in), its
\* status fetch failed, the command has returned the error with nothing
\* enqueued, and is_clocked_in is still false
C29_Witness ==
    /\ last.path = "status_failed"
    /\ last.kind = "clock_in"
    /\ last.ret = "Err"
    /\ remote_clocked_in
    /\ ~is_clocked_in
    /\ last.queued = 0


\* C30: clock_out_with_break with a break start that is not an RFC 3339
\* instant returns its error before any request, enqueues nothing and leaves
\* is_clocked_in as it was.  So on a queue that only commands have written,
\* every ClockOutWithBreak row has a payload that parses, and the queue
\* processor never takes its missing/invalid-payload branch.
C30_BadBreakRefused ==
    /\ (last.by = "cmd" /\ last.ret = "Invalid break time") =>
          /\ last.op = "return"
          /\ last.kind = "clock_out_with_break"
          /\ last.api = None
          /\ last.queued = 0
          /\ is_clocked_in = last.was
          /\ cmd.pc = "idle"
    /\ (cmd.pc # "idle" /\ cmd.kind = "clock_out_with_break") =>
          parse_from_rfc3339(cmd.payload).ok
    /\ \A i \in 1..Len(queue) :
          queue[i].action_type = "ClockOutWithBreak" =>
              /\ queue[i].payload # None
              /\ parse_from_rfc3339(queue[i].payload).ok
    /\ \A k \in 1..Len(sync.pending) : PayloadError(sync.pending[k]) = None

\* C30 witness: a break with an unparseable start was refused while the
\* user is clocked in and an earlier break, with a start that parses, is
\* queued and in the snapshot of the running cycle
C30_Witness ==
    /\ last.by = "cmd"
    /\ last.ret = "Invalid break time"
    /\ is_clocked_in
    /\ \E i \in 1..Len(queue) : queue[i].action_type = "ClockOutWithBreak"
    /\ InLoop
    /\ Current.action_type = "ClockOutWithBreak"

----------------------------------------------------------------------------
\* C31: logout changes only session_token and is_clocked_in: a step of
\* logout leaves the queue's rows, their order and their retry counts (and
\* every other part of the state) as they were.  The rows carry no session:
\* a cycle takes the session token that is stored when it starts, keeps it
\* to its end, and every replay request of the cycle carries that token,
\* whichever session enqueued the action.
C31_LogoutStep == logout' # logout

C31_LogoutFrame ==
    C31_LogoutStep =>
        /\ UNCHANGED <<queue, nextId, webapp_url, clock, remote_clocked_in, cmd,
                       sync, acked>>
        /\ (session_token' # session_token => session_token' = None)
        /\ (is_clocked_in' # is_clocked_in => is_clocked_in' = FALSE)

C31_CycleStart ==
    (sync.pc = "sleep" /\ sync'.pc # "sleep") =>
        sync'.token = session_token /\ sync'.token # None

C31_Request ==
    \/ Len(sync'.dispatched) > Len(sync.dispatched)
    \/ sync.pc = "call2" /\ sync'.pc = "record"

C31_CycleToken ==
    /\ (sync.pc # "sleep" /\ sync'.pc # "sleep") => sync'.token = sync.token
    /\ C31_Request => sync'.sent = sync.token
    /\ (~C31_Request /\ sync'.pc # "sleep") => sync'.sent = sync.sent

C31_LogoutKeepsQueue ==
    [][C31_LogoutFrame /\ C31_CycleStart /\ C31_CycleToken]_vars

\* a logout has just finished with both actions of the first session still
\* queued, while a cycle that started under the second session's token has
\* sent the first session's ClockIn with that token
C31_Witness ==
    /\ last.by = "auth" /\ last.op = "logout"
    /\ session_token = None
    /\ Ids(queue) = Ids(SessionQueue)
    /\ sync.pc = "record"
    /\ Current.id = 1
    /\ sync.token = Token2
    /\ sync.sent = Token2

----------------------------------------------------------------------------
\* C32: the idle checker emits idle_detected only at a check that finds the
\* user active (idle for less than the threshold) and is_clocked_in true,
\* and only if an earlier check found the user idle while clocked in and no
\* check since then found is_clocked_in false.  A check that finds
\* is_clocked_in false resets the tracking (was_idle, idle_start), and so
\* does every emission: each event reports an idle period that no event
\* before it reported, so an idle period yields at most one event.
C32_Check == last'.by = "idle" /\ last'.op = "check"
C32_Emits == C32_Check /\ last'.path = "idle_detected"
C32_IsIdle == idle.now - idle.last_activity >= IDLE_THRESHOLD_SECS
C32_TrackingReset == ~idle'.was_idle /\ idle'.idle_start = NoInstant

C32_EmitStep ==
    C32_Emits =>
        /\ ~C32_IsIdle
        /\ is_clocked_in
        /\ idle.seen # NoInstant
        /\ idle.seen \notin Range(idle.reported)
        /\ idle'.reported = Append(idle.reported, idle.seen)
        /\ C32_TrackingReset

C32_ResetStep == (C32_Check /\ ~is_clocked_in) => C32_TrackingReset

C32_OnePerIdlePeriod == [][C32_EmitStep /\ C32_ResetStep]_vars

\* the second event: the user was away twice while clocked in and came
\* back twice, and the check after the second return has just emitted
C32_Witness ==
    /\ last.by = "idle" /\ last.path = "idle_detected"
    /\ idle.reported = <<0, IDLE_THRESHOLD_SECS>>
    /\ idle.event = IDLE_THRESHOLD_SECS * 1000

====
